---- MODULE Spec2Model ----
(***************************************************************************)
(* A model of src/client.rs: ChromaClientOptions, ChromaClient::new and    *)
(* the collection lifecycle methods of ChromaClient, run by concurrent     *)
(* tasks against one session (one ChromaClient value) and one server.      *)
(*                                                                         *)
(* Option<T> values are sequences: <<>> is None, <<x>> is Some(x).         *)
(* HashMap values are functions whose DOMAIN is the set of keys present.   *)
(* A request is handled by the server, if at all, before the call that     *)
(* issued it returns.                                                      *)
(***************************************************************************)
EXTENDS Integers, Sequences, FiniteSets, TLC

\* ------------------------------------------------------------- bounds
\* Tasks that call the session concurrently (specification Spec).
MaxTasks == 2
\* Calls begun in one behaviour of Spec, over all tasks.
MaxCalls == 3
\* Tasks that call get_or_create_collection concurrently (SpecGoc).
MaxGocTasks == 3
\* Calls begun in one behaviour of SpecGoc, over all tasks.
MaxGocCalls == 3
\* Calls the single task of SpecSeq makes one after the other.
MaxSeqCalls == 4
\* Calls begun in one behaviour of SpecLive, over all tasks.
MaxLiveCalls == 2

Max2(a, b) == IF a >= b THEN a ELSE b
Tasks == 1 .. Max2(MaxTasks, MaxGocTasks)

\* ----------------------------------------------------------- constants
DEFAULT_ENDPOINT == "http://localhost:8000"
DefaultConnections == 4

None == <<>>
Some(x) == <<x>>

\* ------------------------------------------------ ChromaClientOptions
AuthNone == [method |-> "None", header |-> "", token |-> ""]
TokenAuth(h, tok) == [method |-> "TokenAuth", header |-> h, token |-> tok]

\* impl Default for ChromaClientOptions
ChromaClientOptions_default ==
    [url |-> None,
     auth |-> AuthNone,
     tenant |-> "default_tenant",
     database |-> "default_database",
     connections |-> DefaultConnections]

\* ChromaClientOptions::new
ChromaClientOptions_new == ChromaClientOptions_default

\* The builder methods: each consumes the options and returns them changed.
Options_url(o, u) == [o EXCEPT !.url = Some(u)]
Options_auth(o, a) == [o EXCEPT !.auth = a]
Options_tenant(o, s) == [o EXCEPT !.tenant = s]
Options_database(o, s) == [o EXCEPT !.database = s]
Options_connections(o, n) == [o EXCEPT !.connections = n]
Options_token_auth(o, tok) == Options_auth(o, TokenAuth("Authorization", tok))
Options_x_chroma_token(o, tok) == Options_auth(o, TokenAuth("XChromaToken", tok))

\* The inputs the builder actions draw from.
UrlArgs == {"http://explicit:1", ""}
TokenArgs == {"tok"}
TenantArgs == {"t1"}
DatabaseArgs == {"d1"}
ConnectionArgs == {1}

\* ------------------------------------------------------ the environment
\* A process environment variable is unset, set to valid Unicode, or set to
\* bytes that are not valid Unicode.
EnvUnset == [set |-> FALSE, unicode |-> FALSE, val |-> ""]
EnvSet(v) == [set |-> TRUE, unicode |-> TRUE, val |-> v]
EnvNotUnicode == [set |-> TRUE, unicode |-> FALSE, val |-> ""]

EnvNames == {"CHROMA_HOST", "CHROMA_URL"}
EnvValue(k) == IF k = "CHROMA_HOST" THEN "http://host:2" ELSE "http://url:3"
Environments ==
    [EnvNames -> {EnvUnset, EnvNotUnicode}]
    \cup {[k \in EnvNames |-> IF k \in S THEN EnvSet(EnvValue(k)) ELSE other[k]] :
            S \in SUBSET EnvNames, other \in [EnvNames -> {EnvUnset, EnvNotUnicode}]}
EnvAllUnset == [k \in EnvNames |-> EnvUnset]

\* std::env::var(key): Ok(value) when the variable is present and valid
\* Unicode, Err(NotPresent) or Err(NotUnicode) otherwise.  The Result is an
\* Option here: the error's payload is never read.
std_env_var(e, k) == IF e[k].set /\ e[k].unicode THEN Some(e[k].val) ELSE None

\* Result::unwrap_or / Option::unwrap_or
unwrap_or(r, default) == IF r # None THEN r[1] ELSE default

\* A plausible slip: CHROMA_URL consulted before CHROMA_HOST.
resolve_endpoint_url_first(url, e) ==
    IF url # None
    THEN url[1]
    ELSE unwrap_or(std_env_var(e, "CHROMA_URL"),
                   unwrap_or(std_env_var(e, "CHROMA_HOST"), DEFAULT_ENDPOINT))

\* ChromaClient::new, the endpoint (lines 107-112).
resolve_endpoint(url, e) ==
    IF url # None
    THEN url[1]
    ELSE unwrap_or(std_env_var(e, "CHROMA_HOST"),
                   unwrap_or(std_env_var(e, "CHROMA_URL"), DEFAULT_ENDPOINT))

\* APIClientAsync::new(endpoint, auth, tenant, database, connections)
APIClientAsync_new(endpoint, auth, tenant, database, connections) ==
    [endpoint |-> endpoint, auth |-> auth, tenant |-> tenant,
     database |-> database, connections |-> connections]

\* ChromaClient::new: the transport client of the session (lines 114-121).
ChromaClient_new_api(o, e) ==
    APIClientAsync_new(resolve_endpoint(o.url, e), o.auth, o.tenant,
                       o.database, o.connections)

\* ------------------------------------------------------------- names
\* Collection names the server accepts, and one it rejects as invalid.
ValidNames == {"a", "b"}
InvalidName == "!"
Names == ValidNames \cup {InvalidName}
NameOrder == <<"a", "b">>

\* --------------------------------------------------- ChromaCollection
\* The transport reference of a handle: the Default a deserialized handle
\* carries, or a clone of the session's Arc<APIClientAsync>.
Unattached == "Default"
ApiRef == "Arc(self.api)"

\* The collection entity as it travels: a JSON object without the api field.
Wire(name, id) == [name |-> name, id |-> id]

\* response.json::<ChromaCollection>(): the decoded handle; its api field is
\* not part of the payload.
json_collection(w) == [name |-> w.name, id |-> w.id, api |-> Unattached]

\* A slip: the handle keeps the transport reference it was decoded with.
attach_api_skipped(h) == h

\* collection.api = self.api.clone()
attach_api(h) == [h EXCEPT !.api = ApiRef]

\* ------------------------------------------------------------ results
NoResult == [kind |-> "None", err |-> "", colls |-> <<>>, version |-> "", heartbeat |-> 0]
Err(e) == [kind |-> "Err", err |-> e, colls |-> <<>>, version |-> "", heartbeat |-> 0]
OkUnit == [kind |-> "Ok", err |-> "", colls |-> <<>>, version |-> "", heartbeat |-> 0]
OkCollection(h) == [OkUnit EXCEPT !.colls = <<h>>]
OkCollections(hs) == [OkUnit EXCEPT !.colls = hs]
OkVersion(v) == [OkUnit EXCEPT !.version = v]
OkHeartbeat(n) == [OkUnit EXCEPT !.heartbeat = n]

\* ----------------------------------------------------------- messages
NoMsg == [kind |-> "none"]
NoBody == [name |-> "", metadata |-> None, get_or_create |-> FALSE, configuration |-> ""]
Request(verb, scoped, path, body) ==
    [kind |-> "req", verb |-> verb, scoped |-> scoped, path |-> path, body |-> body]
Response(status, colls, version, heartbeat) ==
    [kind |-> "resp", status |-> status, colls |-> colls,
     version |-> version, heartbeat |-> heartbeat]
RespErr(e) == Response(e, <<>>, "", 0)
RespOk(colls) == Response("Ok", colls, "", 0)

\* --------------------------------------------------------- the server
RECURSIVE MapWire(_, _)
MapWire(names, srv) ==
    IF names = <<>> THEN <<>>
    ELSE LET n == Head(names) IN
         (IF n \in DOMAIN srv THEN <<Wire(n, srv[n])>> ELSE <<>>)
         \o MapWire(Tail(names), srv)

Remove(f, k) == [x \in DOMAIN f \ {k} |-> f[x]]

\* The server's handling of one request: the collections it holds after it,
\* the next identifier it will assign, and its response.
Served(srv, nid, resp) == [server |-> srv, nextId |-> nid, resp |-> resp]

server_create(srv, nid, body) ==
    IF body.name \notin ValidNames
    THEN Served(srv, nid, RespErr("ValidationError"))
    ELSE IF body.name \in DOMAIN srv
    THEN IF body.get_or_create
         THEN Served(srv, nid, RespOk(<<Wire(body.name, srv[body.name])>>))
         ELSE Served(srv, nid, RespErr("ConflictError"))
    ELSE Served((body.name :> nid) @@ srv, nid + 1, RespOk(<<Wire(body.name, nid)>>))

server_get(srv, nid, name) ==
    IF name \notin ValidNames
    THEN Served(srv, nid, RespErr("ValidationError"))
    ELSE IF name \in DOMAIN srv
    THEN Served(srv, nid, RespOk(<<Wire(name, srv[name])>>))
    ELSE Served(srv, nid, RespErr("NotFoundError"))

server_delete(srv, nid, name) ==
    IF name \notin ValidNames
    THEN Served(srv, nid, RespErr("ValidationError"))
    ELSE IF name \in DOMAIN srv
    THEN Served(Remove(srv, name), nid, RespOk(<<>>))
    ELSE Served(srv, nid, RespErr("NotFoundError"))

server_list(srv, nid) == Served(srv, nid, RespOk(MapWire(NameOrder, srv)))

server_handle(srv, nid, req) ==
    IF req.path = <<"version">> THEN Served(srv, nid, Response("Ok", <<>>, "1.0.0", 0))
    ELSE IF req.path = <<"heartbeat">> THEN Served(srv, nid, Response("Ok", <<>>, "", 1))
    ELSE IF req.verb = "POST" THEN server_create(srv, nid, req.body)
    ELSE IF req.verb = "DELETE" THEN server_delete(srv, nid, req.path[2])
    ELSE IF Len(req.path) = 2 THEN server_get(srv, nid, req.path[2])
    ELSE server_list(srv, nid)

\* -------------------------------------------------- the translator
\* CreateCollectionConfiguration::to_configuration: the wire mapping, or a
\* configuration error.
to_configuration(c) ==
    IF c = "invalid" THEN [ok |-> FALSE, map |-> ""] ELSE [ok |-> TRUE, map |-> c]

\* ------------------------------------------------------------- calls
CreateMethods == {"create_collection", "get_or_create_collection"}
NameMethods == {"get_collection", "delete_collection"}
PlainMethods == {"list_collections", "version", "heartbeat"}

Call(method, name, metadata, configuration, get_or_create) ==
    [method |-> method, name |-> name, metadata |-> metadata,
     configuration |-> configuration, get_or_create |-> get_or_create]
NoCall == Call("none", "", None, None, FALSE)

\* The optional arguments a caller passes to a create call: none; a metadata
\* map and a configuration the translator accepts; a configuration it rejects.
OptionalArgs ==
    {<<None, None>>, <<Some("m"), Some("hnsw")>>, <<None, Some("invalid")>>}

\* What a caller can invoke.  get_or_create_collection takes no flag: the
\* field is FALSE in its call and never read.  The invalid name comes with no
\* optional argument.
CreateArgs ==
    {<<n, o[1], o[2]>> : n \in ValidNames, o \in OptionalArgs}
    \cup {<<InvalidName, None, None>>}
Calls ==
    {Call("create_collection", a[1], a[2], a[3], g) : a \in CreateArgs, g \in BOOLEAN}
    \cup {Call("get_or_create_collection", a[1], a[2], a[3], FALSE) : a \in CreateArgs}
    \cup {Call(meth, n, None, None, FALSE) : meth \in NameMethods, n \in Names}
    \cup {Call(meth, "", None, None, FALSE) : meth \in PlainMethods}
CallsOfGoc == {c \in Calls : c.method = "get_or_create_collection"}

\* The parameters of create_collection as bound in its body.
Frame(name, metadata, configuration, get_or_create) ==
    [name |-> name, metadata |-> metadata, configuration |-> configuration,
     get_or_create |-> get_or_create]
NoFrame == Frame("", None, None, FALSE)

\* A slip in the wrapper: the flag passed as false.
get_or_create_collection_false(name, metadata, configuration) ==
    Frame(name, metadata, configuration, FALSE)

\* get_or_create_collection (line 196): create_collection(name, metadata,
\* configuration, true).
get_or_create_collection(name, metadata, configuration) ==
    Frame(name, metadata, configuration, TRUE)

\* The frame a call enters create_collection with.
enter(c) ==
    IF c.method = "get_or_create_collection"
    THEN get_or_create_collection(c.name, c.metadata, c.configuration)
    ELSE IF c.method = "create_collection"
    THEN Frame(c.name, c.metadata, c.configuration, c.get_or_create)
    ELSE NoFrame

\* ----------------------------------------------------------- the cache
\* A slip: the lookup never finds the entry.
cache_get_miss(cache, name) == None

\* HashMap::get(name).cloned()
cache_get(cache, name) == IF name \in DOMAIN cache THEN Some(cache[name]) ELSE None

\* A change of behaviour: HashMap::insert, the last writer wins.
or_insert_overwrite(cache, name, h) == (name :> h) @@ cache

\* A slip: the handle is never put into the map.
or_insert_dropped(cache, name, h) == cache

\* HashMap::entry(name).or_insert(h)
or_insert(cache, name, h) == IF name \in DOMAIN cache THEN cache ELSE (name :> h) @@ cache

EmptyMap == [x \in {} |-> 0]

\* -------------------------------------------------------------- state
VARIABLES
    opts,              \* the ChromaClientOptions value being built
    env,               \* the process environment
    api,               \* ChromaClient.api: None before ChromaClient::new
    collection_cache,  \* ChromaClient.collection_cache: name -> handle
    lock,              \* the task holding the cache Mutex, 0 when free,
                       \* Poisoned once a task panicked holding it
    server,            \* the server's collections: name -> identifier
    nextId,            \* the identifier the server assigns next
    pc,                \* each task's position in the method it runs
    call,              \* each task's current call, as invoked
    frame,             \* each task's create_collection parameters
    net,               \* each task's request or response in flight
    collection,        \* each task's local `collection` (create_collection)
    result,            \* what each task's current call returned
    prev,              \* each task's previous call and its result
    reqs,              \* requests each task's current call has issued
    hit0,              \* the cache entry for the call's name when it began
    ncalls,            \* calls begun so far
    sequential         \* the calls are made by one task, one after the other

vars == <<opts, env, api, collection_cache, lock, server, nextId, pc, call,
          frame, net, collection, result, prev, reqs, hit0, ncalls, sequential>>

clientVars == <<opts, env, api, sequential>>
serverVars == <<server, nextId>>

NoPrev == [call |-> NoCall, result |-> NoResult]

\* The state of the Mutex after a panic under its guard: free, and every
\* later lock() returns a PoisonError.  No task has this number.
Poisoned == Cardinality(Tasks) + 1

\* No task has called the session yet.
TasksIdle ==
    /\ pc = [t \in Tasks |-> "idle"]
    /\ call = [t \in Tasks |-> NoCall]
    /\ frame = [t \in Tasks |-> NoFrame]
    /\ net = [t \in Tasks |-> NoMsg]
    /\ collection = [t \in Tasks |-> None]
    /\ result = [t \in Tasks |-> NoResult]
    /\ prev = [t \in Tasks |-> NoPrev]
    /\ reqs = [t \in Tasks |-> 0]
    /\ hit0 = [t \in Tasks |-> None]
    /\ ncalls = 0

\* The collections the server holds before the session starts: "b" exists
\* already (an earlier session created it), "a" does not.
PreExisting == {"b"}
InitialServer == [n \in PreExisting |-> Cardinality(PreExisting)]
FirstFreshId == Cardinality(PreExisting) + 1

\* The state after ChromaClient::new(Default::default()) with no CHROMA_*
\* variable set: the cache is empty and the lock free.  The session is then
\* called by concurrent tasks, or by a single task whose calls follow one
\* another.
Init ==
    /\ sequential \in BOOLEAN
    /\ opts = ChromaClientOptions_default
    /\ env = EnvAllUnset
    /\ api = Some(ChromaClient_new_api(opts, env))
    /\ collection_cache = EmptyMap
    /\ lock = 0
    /\ server = InitialServer
    /\ nextId = FirstFreshId
    /\ TasksIdle

\* ---------------------------------------------------------- task steps
Goto(t, where) == pc' = [pc EXCEPT ![t] = where]
Return(t, r) == result' = [result EXCEPT ![t] = r] /\ Goto(t, "done")

\* A request handed to the transport client; the task awaits the response.
Send(t, req) ==
    /\ net' = [net EXCEPT ![t] = req]
    /\ reqs' = [reqs EXCEPT ![t] = @ + 1]
    /\ Goto(t, "await")

\* The errors `.await?` can return for the message in flight: the transport
\* failed (before or after the server handled the request), or the server
\* answered with an error status.
await_errors(m) ==
    {Err("TransportError")}
    \cup (IF m.kind = "resp" /\ m.status # "Ok" THEN {Err(m.status)} ELSE {})

\* The error `response.json().await?` can return: the body does not decode.
json_errors(m) ==
    IF m.kind = "resp" /\ m.status = "Ok" THEN {Err("DecodeError")} ELSE {}

Answered(m) == m.kind = "resp" /\ m.status = "Ok"

\* A slip: the cache is consulted whatever the flag.
create_collection_entry_always(f) == "lock_lookup"

\* create_collection, line 146: which way the call enters.
create_collection_entry(f) == IF f.get_or_create THEN "lock_lookup" ELSE "request"

first_pc(c) ==
    IF c.method \in CreateMethods THEN create_collection_entry(enter(c)) ELSE "request"

\* The cache entry of a name, as an Option.
Entry(n) == IF n \in DOMAIN collection_cache THEN Some(collection_cache[n]) ELSE None

\* A task calls a method of the session.  In a sequential behaviour the call
\* it replaces, and its result, are remembered in prev.  Tasks are
\* interchangeable: they make their first calls in the order of their numbers.
Begin(t, c, budget) ==
    /\ pc[t] \in {"idle", "done"}
    /\ \A u \in 1 .. (t - 1) : pc[u] # "idle"
    /\ ncalls < budget
    /\ ncalls' = ncalls + 1
    /\ call' = [call EXCEPT ![t] = c]
    /\ frame' = [frame EXCEPT ![t] = enter(c)]
    /\ prev' = IF sequential
               THEN [prev EXCEPT ![t] = [call |-> call[t], result |-> result[t]]]
               ELSE prev
    /\ result' = [result EXCEPT ![t] = NoResult]
    /\ net' = [net EXCEPT ![t] = NoMsg]
    /\ collection' = [collection EXCEPT ![t] = None]
    /\ reqs' = [reqs EXCEPT ![t] = 0]
    /\ hit0' = [hit0 EXCEPT ![t] = Entry(c.name)]
    /\ Goto(t, first_pc(c))
    /\ UNCHANGED <<clientVars, collection_cache, lock, serverVars>>

\* create_collection, line 148: self.collection_cache.lock().unwrap()
LockLookup(t) ==
    /\ pc[t] = "lock_lookup"
    /\ lock = 0
    /\ lock' = t
    /\ Goto(t, "lookup")
    /\ UNCHANGED <<clientVars, collection_cache, serverVars, call, frame, net,
                   collection, result, prev, reqs, hit0, ncalls>>

\* A change of behaviour: the configuration is translated before the cache
\* is looked up, so a configuration error wins over a cache hit.
Lookup_translate_first(t) ==
    /\ pc[t] = "lookup"
    /\ lock = t
    /\ lock' = 0
    /\ LET found == cache_get(collection_cache, frame[t].name)
           bad == /\ frame[t].configuration # None
                  /\ ~to_configuration(frame[t].configuration[1]).ok
       IN IF bad THEN Return(t, Err("ConfigurationError"))
          ELSE IF found # None
          THEN Return(t, OkCollection(found[1]))
          ELSE Goto(t, "request") /\ UNCHANGED result
    /\ UNCHANGED <<clientVars, collection_cache, serverVars, call, frame, net,
                   collection, prev, reqs, hit0, ncalls>>

\* A change of behaviour: on a miss the guard lives on to the end of the
\* function, across the request.
Lookup_keep_guard(t) ==
    /\ pc[t] = "lookup"
    /\ lock = t
    /\ LET found == cache_get(collection_cache, frame[t].name) IN
       IF found # None
       THEN Return(t, OkCollection(found[1])) /\ lock' = 0
       ELSE Goto(t, "request") /\ UNCHANGED <<result, lock>>
    /\ UNCHANGED <<clientVars, collection_cache, serverVars, call, frame, net,
                   collection, prev, reqs, hit0, ncalls>>

\* create_collection, lines 149-152: a hit returns a clone of the entry; the
\* guard is dropped on return and at the end of the block.
Lookup(t) ==
    /\ pc[t] = "lookup"
    /\ lock = t
    /\ lock' = 0
    /\ LET found == cache_get(collection_cache, frame[t].name) IN
       IF found # None
       THEN Return(t, OkCollection(found[1]))
       ELSE Goto(t, "request") /\ UNCHANGED result
    /\ UNCHANGED <<clientVars, collection_cache, serverVars, call, frame, net,
                   collection, prev, reqs, hit0, ncalls>>

\* json!({name, metadata, get_or_create, configuration})
request_body(f, config) ==
    [name |-> f.name, metadata |-> f.metadata,
     get_or_create |-> f.get_or_create, configuration |-> config]

\* create_collection, lines 154-168: translate the configuration, build the
\* body, post it.
CreateRequest(t) ==
    /\ pc[t] = "request"
    /\ call[t].method \in CreateMethods
    /\ LET f == frame[t]
           config == IF f.configuration # None
                     THEN to_configuration(f.configuration[1])
                     ELSE [ok |-> TRUE, map |-> "{}"]
       IN IF config.ok
          THEN /\ Send(t, Request("POST", TRUE, <<"collections">>,
                                  request_body(f, config.map)))
               /\ UNCHANGED result
          ELSE /\ Return(t, Err("ConfigurationError"))
               /\ UNCHANGED <<net, reqs>>
    /\ UNCHANGED <<clientVars, collection_cache, lock, serverVars, call, frame,
                   collection, prev, hit0, ncalls>>

\* A change of behaviour: a request the transport failed is sent once more.
CreateResponse_retry(t) ==
    /\ pc[t] = "await"
    /\ call[t].method \in CreateMethods
    /\ \/ /\ net[t].kind = "req" /\ reqs[t] = 1
          /\ reqs' = [reqs EXCEPT ![t] = @ + 1]
          /\ UNCHANGED <<collection, result, pc>>
       \/ /\ \E e \in await_errors(net[t]) \cup json_errors(net[t]) : Return(t, e)
          /\ UNCHANGED <<collection, reqs>>
       \/ /\ Answered(net[t])
          /\ collection' = [collection EXCEPT
                              ![t] = Some(attach_api(json_collection(net[t].colls[1])))]
          /\ Goto(t, "lock_insert")
          /\ UNCHANGED <<result, reqs>>
    /\ UNCHANGED <<clientVars, collection_cache, lock, serverVars, call, frame,
                   net, prev, hit0, ncalls>>

\* create_collection, lines 165-170: the response, decoded, with the
\* session's transport attached.
CreateResponse(t) ==
    /\ pc[t] = "await"
    /\ call[t].method \in CreateMethods
    /\ \/ /\ \E e \in await_errors(net[t]) \cup json_errors(net[t]) : Return(t, e)
          /\ UNCHANGED collection
       \/ /\ Answered(net[t])
          /\ collection' = [collection EXCEPT
                              ![t] = Some(attach_api(json_collection(net[t].colls[1])))]
          /\ Goto(t, "lock_insert")
          /\ UNCHANGED result
    /\ UNCHANGED <<clientVars, collection_cache, lock, serverVars, call, frame,
                   net, prev, reqs, hit0, ncalls>>

\* create_collection, line 172: self.collection_cache.lock().unwrap()
LockInsert(t) ==
    /\ pc[t] = "lock_insert"
    /\ lock = 0
    /\ lock' = t
    /\ Goto(t, "insert")
    /\ UNCHANGED <<clientVars, collection_cache, serverVars, call, frame, net,
                   collection, result, prev, reqs, hit0, ncalls>>

\* A change of behaviour: the guard is leaked (mem::forget), the lock is
\* never released.
Insert_keep_guard(t) ==
    /\ pc[t] = "insert"
    /\ lock = t
    /\ collection_cache' = or_insert(collection_cache, frame[t].name, collection[t][1])
    /\ Return(t, OkCollection(collection[t][1]))
    /\ UNCHANGED <<clientVars, lock, serverVars, call, frame, net, collection,
                   prev, reqs, hit0, ncalls>>

\* create_collection, lines 173-176: insert a clone unless the name has an
\* entry, return the handle just decoded; the guard is dropped on return.
Insert(t) ==
    /\ pc[t] = "insert"
    /\ lock = t
    /\ lock' = 0
    /\ collection_cache' = or_insert(collection_cache, frame[t].name, collection[t][1])
    /\ Return(t, OkCollection(collection[t][1]))
    /\ UNCHANGED <<clientVars, serverVars, call, frame, net, collection, prev,
                   reqs, hit0, ncalls>>

\* What a step that ends a call without a result leaves alone.
UNCHANGED_abandoned ==
    UNCHANGED <<clientVars, collection_cache, serverVars, call, frame, net,
                collection, result, prev, reqs, hit0, ncalls>>

\* create_collection, lines 149-150 and 173-175: the task panics while it
\* holds the guard (a clone, the key's to_string or the insert panics, before
\* the map is changed).  Unwinding drops the guard, which poisons the Mutex.
PanicHolding(t) ==
    /\ pc[t] \in {"lookup", "insert"}
    /\ lock = t
    /\ lock' = Poisoned
    /\ Goto(t, "panicked")
    /\ UNCHANGED_abandoned

\* A change of behaviour: a PoisonError is recovered from by taking the
\* guard out of it (into_inner), and the call goes on.
LockPanics_recover(t) ==
    /\ pc[t] \in {"lock_lookup", "lock_insert"}
    /\ lock = Poisoned
    /\ lock' = t
    /\ Goto(t, IF pc[t] = "lock_lookup" THEN "lookup" ELSE "insert")
    /\ UNCHANGED_abandoned

\* create_collection, lines 148 and 172: lock() on the poisoned Mutex returns
\* Err(PoisonError) and unwrap() panics; the Mutex stays poisoned.
LockPanics(t) ==
    /\ pc[t] \in {"lock_lookup", "lock_insert"}
    /\ lock = Poisoned
    /\ Goto(t, "panicked")
    /\ UNCHANGED lock
    /\ UNCHANGED_abandoned

\* A change of behaviour: the call can also be abandoned after its insert,
\* as if an await followed it.
Cancel_after_insert(t) ==
    /\ call[t].method \in CreateMethods
    /\ \/ pc[t] = "await" /\ UNCHANGED <<collection_cache, lock>>
       \/ /\ pc[t] = "insert" /\ lock = t
          /\ collection_cache' = or_insert(collection_cache, frame[t].name,
                                           collection[t][1])
          /\ lock' = 0
    /\ Goto(t, "cancelled")
    /\ UNCHANGED <<clientVars, serverVars, call, frame, net, collection, result,
                   prev, reqs, hit0, ncalls>>

\* create_collection, lines 165-169: the caller drops the future while it is
\* suspended at one of its two awaits; the call goes no further.
Cancel(t) ==
    /\ call[t].method \in CreateMethods
    /\ pc[t] = "await"
    /\ Goto(t, "cancelled")
    /\ UNCHANGED lock
    /\ UNCHANGED_abandoned

\* What the steps of the methods other than create_collection leave alone.
UNCHANGED_session == UNCHANGED <<clientVars, collection_cache, lock>>
UNCHANGED_call == UNCHANGED <<call, frame, collection, prev, hit0, ncalls>>

AtRequest(t, method) == pc[t] = "request" /\ call[t].method = method
AtAwait(t, method) == pc[t] = "await" /\ call[t].method = method

\* list_collections, line 201: self.api.get_database("/collections")
ListRequest(t) ==
    /\ AtRequest(t, "list_collections")
    /\ Send(t, Request("GET", TRUE, <<"collections">>, NoBody))
    /\ UNCHANGED result
    /\ UNCHANGED_session /\ UNCHANGED_call /\ UNCHANGED serverVars

Range(q) == {q[i] : i \in DOMAIN q}

\* A slip: the listed handles are returned as decoded.
MapAttach_unattached(ws) == [i \in DOMAIN ws |-> json_collection(ws[i])]

RECURSIVE MapAttach(_)
\* .into_iter().map(|mut collection| { collection.api = ...; collection })
MapAttach(ws) ==
    IF ws = <<>> THEN <<>>
    ELSE <<attach_api(json_collection(Head(ws)))>> \o MapAttach(Tail(ws))

\* A slip: the handles listed are put into the cache.
ListResponse_caching(t) ==
    /\ AtAwait(t, "list_collections")
    /\ Answered(net[t])
    /\ Return(t, OkCollections(MapAttach(net[t].colls)))
    /\ collection_cache' =
          [n \in DOMAIN collection_cache \cup {w.name : w \in Range(net[t].colls)} |->
             IF n \in DOMAIN collection_cache
             THEN collection_cache[n]
             ELSE attach_api(json_collection(
                    CHOOSE w \in Range(net[t].colls) : w.name = n))]
    /\ UNCHANGED <<net, reqs, clientVars, lock>>
    /\ UNCHANGED_call /\ UNCHANGED serverVars

\* list_collections, lines 201-210: every decoded handle gets the transport.
ListResponse(t) ==
    /\ AtAwait(t, "list_collections")
    /\ \/ \E e \in await_errors(net[t]) \cup json_errors(net[t]) : Return(t, e)
       \/ Answered(net[t]) /\ Return(t, OkCollections(MapAttach(net[t].colls)))
    /\ UNCHANGED <<net, reqs>>
    /\ UNCHANGED_session /\ UNCHANGED_call /\ UNCHANGED serverVars

\* A slip: a cached handle is returned without asking the server.
GetRequest_cached(t) ==
    /\ AtRequest(t, "get_collection")
    /\ IF Entry(call[t].name) # None
       THEN /\ Return(t, OkCollection(Entry(call[t].name)[1]))
            /\ UNCHANGED <<net, reqs>>
       ELSE /\ Send(t, Request("GET", TRUE, <<"collections", call[t].name>>, NoBody))
            /\ UNCHANGED result
    /\ UNCHANGED_session /\ UNCHANGED_call /\ UNCHANGED serverVars

\* get_collection, lines 224-227: get_database("/collections/{name}")
GetRequest(t) ==
    /\ AtRequest(t, "get_collection")
    /\ Send(t, Request("GET", TRUE, <<"collections", call[t].name>>, NoBody))
    /\ UNCHANGED result
    /\ UNCHANGED_session /\ UNCHANGED_call /\ UNCHANGED serverVars

\* get_collection, lines 227-230
GetResponse(t) ==
    /\ AtAwait(t, "get_collection")
    /\ \/ \E e \in await_errors(net[t]) \cup json_errors(net[t]) : Return(t, e)
       \/ /\ Answered(net[t])
          /\ Return(t, OkCollection(attach_api(json_collection(net[t].colls[1]))))
    /\ UNCHANGED <<net, reqs>>
    /\ UNCHANGED_session /\ UNCHANGED_call /\ UNCHANGED serverVars

\* delete_collection, lines 244-246: delete_database("/collections/{name}")
DeleteRequest(t) ==
    /\ AtRequest(t, "delete_collection")
    /\ Send(t, Request("DELETE", TRUE, <<"collections", call[t].name>>, NoBody))
    /\ UNCHANGED result
    /\ UNCHANGED_session /\ UNCHANGED_call /\ UNCHANGED serverVars

\* A change of behaviour: a successful delete evicts the cache entry.
DeleteResponse_evict(t) ==
    /\ AtAwait(t, "delete_collection")
    /\ \/ /\ \E e \in await_errors(net[t]) : Return(t, e)
          /\ UNCHANGED collection_cache
       \/ /\ Answered(net[t]) /\ Return(t, OkUnit)
          /\ collection_cache' = Remove(collection_cache, call[t].name)
    /\ UNCHANGED <<net, reqs, clientVars, lock>>
    /\ UNCHANGED_call /\ UNCHANGED serverVars

\* A change of behaviour: deleting what is not there counts as success.
DeleteResponse_lenient(t) ==
    /\ AtAwait(t, "delete_collection")
    /\ \/ \E e \in await_errors(net[t]) \ {Err("NotFoundError")} : Return(t, e)
       \/ /\ net[t].kind = "resp" /\ net[t].status \in {"Ok", "NotFoundError"}
          /\ Return(t, OkUnit)
    /\ UNCHANGED <<net, reqs>>
    /\ UNCHANGED_session /\ UNCHANGED_call /\ UNCHANGED serverVars

\* delete_collection, lines 246-247: the body of the response is not read.
DeleteResponse(t) ==
    /\ AtAwait(t, "delete_collection")
    /\ \/ \E e \in await_errors(net[t]) : Return(t, e)
       \/ Answered(net[t]) /\ Return(t, OkUnit)
    /\ UNCHANGED <<net, reqs>>
    /\ UNCHANGED_session /\ UNCHANGED_call /\ UNCHANGED serverVars

\* version, line 252, and heartbeat, line 259: self.api.get(path), unscoped.
PlainRequest(t) ==
    /\ pc[t] = "request"
    /\ call[t].method \in {"version", "heartbeat"}
    /\ Send(t, Request("GET", FALSE, <<call[t].method>>, NoBody))
    /\ UNCHANGED result
    /\ UNCHANGED_session /\ UNCHANGED_call /\ UNCHANGED serverVars

\* version, lines 252-254, and heartbeat, lines 259-261
PlainResponse(t) ==
    /\ pc[t] = "await"
    /\ call[t].method \in {"version", "heartbeat"}
    /\ \/ \E e \in await_errors(net[t]) \cup json_errors(net[t]) : Return(t, e)
       \/ /\ Answered(net[t])
          /\ Return(t, IF call[t].method = "version"
                       THEN OkVersion(net[t].version)
                       ELSE OkHeartbeat(net[t].heartbeat))
    /\ UNCHANGED <<net, reqs>>
    /\ UNCHANGED_session /\ UNCHANGED_call /\ UNCHANGED serverVars

\* The server handles the request a task awaits and answers it.
Serve(t) ==
    /\ pc[t] = "await"
    /\ net[t].kind = "req"
    /\ LET s == server_handle(server, nextId, net[t]) IN
       /\ server' = s.server
       /\ nextId' = s.nextId
       /\ net' = [net EXCEPT ![t] = s.resp]
    /\ UNCHANGED <<pc, result, reqs>>
    /\ UNCHANGED_session /\ UNCHANGED_call

\* The server handles a request whose caller has abandoned the call.
ServeAbandoned(t) ==
    /\ pc[t] = "cancelled"
    /\ net[t].kind = "req"
    /\ LET s == server_handle(server, nextId, net[t]) IN
       /\ server' = s.server
       /\ nextId' = s.nextId
       /\ net' = [net EXCEPT ![t] = s.resp]
    /\ UNCHANGED <<pc, result, reqs>>
    /\ UNCHANGED_session /\ UNCHANGED_call

\* One step of a create_collection call under way, the server's included.
StepCreate(t) ==
    \/ LockLookup(t)
    \/ Lookup(t)
    \/ CreateRequest(t)
    \/ CreateResponse(t)
    \/ LockInsert(t)
    \/ Insert(t)
    \/ Serve(t)

\* One step of a call under way.
Step(t) ==
    \/ StepCreate(t)
    \/ ListRequest(t)
    \/ ListResponse(t)
    \/ GetRequest(t)
    \/ GetResponse(t)
    \/ DeleteRequest(t)
    \/ DeleteResponse(t)
    \/ PlainRequest(t)
    \/ PlainResponse(t)

\* Spec: the tasks call any method of one session: MaxTasks tasks in any
\* interleaving, or task 1 alone.
Callers == IF sequential THEN {1} ELSE 1 .. MaxTasks
Budget == IF sequential THEN MaxSeqCalls ELSE MaxCalls

Next ==
    \E t \in Callers :
        \/ \E c \in Calls : Begin(t, c, Budget)
        \/ Step(t)

Spec == Init /\ [][Next]_vars

\* SpecSeq: one task calls the session, each call after the last returned.
InitSeq == Init /\ sequential

SpecSeq == InitSeq /\ [][Next]_vars

\* SpecGoc: MaxGocTasks tasks call get_or_create_collection, concurrently and
\* repeatedly, and nothing else is called.
InitGoc == Init /\ ~sequential

NextGoc ==
    \E t \in 1 .. MaxGocTasks :
        \/ \E c \in CallsOfGoc : Begin(t, c, MaxGocCalls)
        \/ StepCreate(t)

SpecGoc == InitGoc /\ [][NextGoc]_vars

\* SpecLive: MaxTasks tasks call any method concurrently, no task panics and
\* no call is abandoned; a task that can take a step of its call eventually
\* takes one (the executor polls a ready future, the Mutex is granted when
\* free, and the transport ends every request with an answer or an error).
NextLive ==
    \E t \in 1 .. MaxTasks :
        \/ \E c \in Calls : Begin(t, c, MaxLiveCalls)
        \/ Step(t)

Fairness == \A t \in 1 .. MaxTasks : WF_vars(Step(t))

SpecLive == InitGoc /\ [][NextLive]_vars /\ Fairness

\* SpecFault: MaxTasks tasks call create_collection and
\* get_or_create_collection concurrently; a task may panic while it holds the
\* guard, and a caller may abandon a call that awaits its response.
CallsOfCreate == {c \in Calls : c.method \in CreateMethods}

NextFault ==
    \E t \in 1 .. MaxTasks :
        \/ \E c \in CallsOfCreate : Begin(t, c, MaxCalls)
        \/ StepCreate(t)
        \/ PanicHolding(t)
        \/ LockPanics(t)
        \/ Cancel(t)
        \/ ServeAbandoned(t)

SpecFault == InitGoc /\ [][NextFault]_vars

\* SpecNew: the options are built and ChromaClient::new is called, under any
\* environment.
InitNew ==
    /\ opts = ChromaClientOptions_new
    /\ env \in Environments
    /\ api = None
    /\ sequential = FALSE
    /\ collection_cache = EmptyMap
    /\ lock = 0
    /\ server = InitialServer
    /\ nextId = FirstFreshId
    /\ TasksIdle

UNCHANGED_notOpts ==
    UNCHANGED <<env, api, sequential, collection_cache, lock, serverVars, pc, call,
                frame, net, collection, result, prev, reqs, hit0, ncalls>>

\* A builder method of ChromaClientOptions is applied (lines 55-92).
Build ==
    /\ api = None
    /\ \/ \E u \in UrlArgs : opts' = Options_url(opts, u)
       \/ \E a \in {AuthNone} : opts' = Options_auth(opts, a)
       \/ \E s \in TenantArgs : opts' = Options_tenant(opts, s)
       \/ \E s \in DatabaseArgs : opts' = Options_database(opts, s)
       \/ \E n \in ConnectionArgs : opts' = Options_connections(opts, n)
       \/ \E k \in TokenArgs : opts' = Options_token_auth(opts, k)
       \/ \E k \in TokenArgs : opts' = Options_x_chroma_token(opts, k)
    /\ UNCHANGED_notOpts

\* ChromaClient::new(options) (lines 98-124)
New ==
    /\ api = None
    /\ api' = Some(ChromaClient_new_api(opts, env))
    /\ collection_cache' = EmptyMap
    /\ UNCHANGED <<opts, env, sequential, lock, serverVars, pc, call, frame, net,
                   collection, result, prev, reqs, hit0, ncalls>>

NextNew == Build \/ New

SpecNew == InitNew /\ [][NextNew]_vars

\* ------------------------------------------------------------- claims
Returned(t) == pc[t] = "done"
AllReturned == \A t \in Tasks : pc[t] \in {"idle", "done"}
IsCreate(t) == call[t].method \in CreateMethods
IsGoc(t) == call[t].method = "get_or_create_collection"
\* The handle a caller gets from the server's collection n.
ServerHandle(n) == attach_api(json_collection(Wire(n, server[n])))
\* The tasks whose get_or_create_collection(n) returned a handle.
GocReturned(n) ==
    {t \in Tasks : Returned(t) /\ IsGoc(t) /\ call[t].name = n /\ result[t].kind = "Ok"}
\* The current call repeats the task's previous call, which returned `r`-kind.
Repeats(t) == sequential /\ prev[t].call = call[t]

\* C1 (SpecGoc): when tasks only call get_or_create_collection, concurrently,
\* every handle a call returns and every cache entry is the handle of the one
\* server-side collection of that name, whole; and once all calls have
\* returned, a name for which a call returned a handle has its entry in the
\* cache, with the identifier every such call returned.
C1_ConcurrentGetOrCreate ==
    \A n \in Names :
        /\ \A t \in GocReturned(n) :
              n \in DOMAIN server /\ result[t].colls = <<ServerHandle(n)>>
        /\ n \in DOMAIN collection_cache =>
              n \in DOMAIN server /\ collection_cache[n] = ServerHandle(n)
        /\ (AllReturned /\ GocReturned(n) # {}) =>
              /\ n \in DOMAIN collection_cache
              /\ \A t \in GocReturned(n) :
                    result[t].colls[1].id = collection_cache[n].id

\* Two calls for "a" both missed the cache, both asked the server, and all
\* calls have returned.
C1_Witness ==
    /\ AllReturned
    /\ \E t, u \in GocReturned("a") : t # u /\ reqs[t] = 1 /\ reqs[u] = 1
    /\ "a" \in DOMAIN collection_cache

\* C2 (Spec): a create call with get_or_create = true that begins while the
\* cache holds an entry for its name issues no request and returns a clone
\* of that entry; and a get_or_create_collection(N) that follows one that
\* returned a handle returns the same handle, issuing no request.
C2_CacheHitNoRequest ==
    \A t \in Tasks :
        /\ (IsCreate(t) /\ frame[t].get_or_create /\ hit0[t] # None) =>
              /\ reqs[t] = 0
              /\ Returned(t) => result[t] = OkCollection(hit0[t][1])
        /\ (Repeats(t) /\ IsGoc(t) /\ prev[t].result.kind = "Ok" /\ Returned(t)) =>
              /\ reqs[t] = 0
              /\ result[t] = prev[t].result

\* In a concurrent behaviour, a get_or_create call found the entry another
\* task's call had inserted.
C2_Witness ==
    \E t \in Tasks :
        /\ ~sequential /\ Returned(t) /\ IsCreate(t) /\ frame[t].get_or_create
        /\ hit0[t] # None /\ result[t].kind = "Ok"
        /\ \E u \in Tasks \ {t} : IsCreate(u) /\ call[u].name = call[t].name /\ reqs[u] = 1

\* The second of two get_or_create_collection(N) calls in sequence returned.
C2_WitnessSeq ==
    Repeats(1) /\ IsGoc(1) /\ prev[1].result.kind = "Ok" /\ Returned(1)

\* C3 (Spec): a create_collection call with get_or_create = false never
\* takes the cache lock for a lookup and, its configuration translated,
\* issues exactly one request; it returns Ok only if the server answered Ok.
\* The second of two identical such calls in sequence, the first of which
\* succeeded, is answered with a conflict by the server and never returns
\* Ok: it returns the conflict error whenever the transport delivers the
\* server's answer.
C3_CreateTwiceConflicts ==
    \A t \in Tasks :
        (call[t].method = "create_collection" /\ ~call[t].get_or_create) =>
            /\ pc[t] \notin {"lock_lookup", "lookup"}
            /\ ~frame[t].get_or_create
            /\ (Returned(t) /\ call[t].configuration # Some("invalid")) => reqs[t] = 1
            /\ (Returned(t) /\ result[t].kind = "Ok") => Answered(net[t])
            /\ (Repeats(t) /\ prev[t].result.kind = "Ok" /\ Returned(t)) =>
                  /\ reqs[t] = 1
                  /\ result[t].kind = "Err"
                  /\ net[t].kind = "resp" => net[t].status = "ConflictError"
                  /\ result[t].err \in {"ConflictError", "TransportError"}
                  /\ call[t].name \in DOMAIN collection_cache

\* The second of two identical create_collection(N, false) calls returned the
\* server's conflict error while the cache held N.
C3_Witness ==
    /\ Repeats(1) /\ call[1].method = "create_collection" /\ ~call[1].get_or_create
    /\ prev[1].result.kind = "Ok" /\ Returned(1)
    /\ result[1] = Err("ConflictError")
    /\ call[1].name \in DOMAIN collection_cache

\* Task t takes a step of the call it is running.
Moves(t) == pc[t] \notin {"idle", "done"} /\ (pc'[t] # pc[t] \/ net'[t] # net[t])
Running(t, method) == call[t].method = method /\ Moves(t)

\* C4 (Spec): no step of delete_collection changes the cache, so the entry a
\* name had when its delete began is there, unchanged, at every later point
\* of the call and after it; and a create call with get_or_create = true
\* that follows a successful delete of a cached name returns the stale
\* entry without a request, the collection staying absent from the server.
C4_Frame == \A t \in Tasks : Running(t, "delete_collection") =>
                collection_cache' = collection_cache
C4_State ==
    \A t \in Tasks :
        /\ (call[t].method = "delete_collection" /\ hit0[t] # None) =>
              Entry(call[t].name) = hit0[t]
        /\ (/\ sequential /\ IsCreate(t) /\ frame[t].get_or_create
            /\ prev[t].call.method = "delete_collection"
            /\ prev[t].call.name = call[t].name
            /\ prev[t].result = OkUnit
            /\ hit0[t] # None) =>
              /\ reqs[t] = 0
              /\ call[t].name \notin DOMAIN server
              /\ Returned(t) => result[t] = OkCollection(hit0[t][1])
C4_DeleteKeepsCacheEntry == [][C4_Frame]_vars /\ []C4_State

\* After a successful delete of a cached name, get_or_create_collection
\* returned the cached handle of the collection the server no longer has.
C4_Witness ==
    /\ sequential /\ IsGoc(1) /\ Returned(1) /\ result[1].kind = "Ok"
    /\ prev[1].call.method = "delete_collection"
    /\ prev[1].call.name = call[1].name /\ prev[1].result = OkUnit
    /\ call[1].name \notin DOMAIN server

\* C5 (Spec): every list_collections call issues one request, whatever the
\* cache holds, returns what the server answered, and none of its steps
\* changes the cache.
C5_Frame == \A t \in Tasks : Running(t, "list_collections") =>
                collection_cache' = collection_cache
C5_State ==
    \A t \in Tasks :
        call[t].method = "list_collections" =>
            /\ pc[t] \in {"await", "done"} => reqs[t] = 1
            /\ (Returned(t) /\ result[t].kind = "Ok") =>
                  Answered(net[t]) /\ result[t].colls = MapAttach(net[t].colls)
C5_ListAlwaysRequests == [][C5_Frame]_vars /\ []C5_State

\* list_collections returned a list of other collections than the cache,
\* populated before the call, holds.
C5_Witness ==
    /\ sequential /\ call[1].method = "list_collections" /\ Returned(1)
    /\ result[1].kind = "Ok"
    /\ DOMAIN collection_cache # {}
    /\ {h.name : h \in Range(result[1].colls)} # DOMAIN collection_cache

\* What get_collection returns for the message `m` its request ended with.
get_collection_results(m) ==
    IF Answered(m)
    THEN {OkCollection(attach_api(json_collection(m.colls[1]))),
          Err("DecodeError"), Err("TransportError")}
    ELSE IF m.kind = "resp" THEN {Err(m.status), Err("TransportError")}
    ELSE {Err("TransportError")}

\* C6 (Spec): every get_collection call issues one get-by-name request,
\* whatever the cache holds; the server answers it from the collections it
\* holds at that moment; the call returns that answer (or the transport's or
\* the decoder's error); and none of its steps changes the cache.
C6_Frame ==
    \A t \in Tasks :
        Running(t, "get_collection") =>
            /\ collection_cache' = collection_cache
            /\ (net[t].kind = "req" /\ net'[t].kind = "resp") =>
                  net'[t] = IF call[t].name \in DOMAIN server
                            THEN RespOk(<<Wire(call[t].name, server[call[t].name])>>)
                            ELSE IF call[t].name \in ValidNames
                            THEN RespErr("NotFoundError")
                            ELSE RespErr("ValidationError")
C6_State ==
    \A t \in Tasks :
        call[t].method = "get_collection" =>
            /\ pc[t] \in {"await", "done"} => reqs[t] = 1
            /\ pc[t] = "await" =>
                  net[t].kind = "resp" \/
                  net[t] = Request("GET", TRUE, <<"collections", call[t].name>>, NoBody)
            /\ Returned(t) => result[t] \in get_collection_results(net[t])
C6_GetAlwaysFresh == [][C6_Frame]_vars /\ []C6_State

\* get_collection returned the server's collection while the cache held,
\* from before the call, a stale entry with another identifier.
C6_Witness ==
    /\ sequential /\ call[1].method = "get_collection" /\ Returned(1)
    /\ result[1].kind = "Ok" /\ hit0[1] # None
    /\ hit0[1][1].id # result[1].colls[1].id
    /\ Entry(call[1].name) = hit0[1]

\* The wire form of the configuration argument of a call.
WireConfiguration(c) == IF c = None THEN "{}" ELSE c[1]

\* C7 (Spec): a get_or_create_collection(name, metadata, configuration) call
\* runs create_collection with exactly these arguments and get_or_create =
\* true, and shows what that call shows: a cache hit returns the entry
\* without a request; otherwise the one request is the create request for
\* these arguments with get_or_create = true in its body, and a handle
\* returned after it is the server's answer, with the name then cached.
C7_GetOrCreateIsCreateTrue ==
    \A t \in Tasks :
        IsGoc(t) =>
            /\ frame[t] = Frame(call[t].name, call[t].metadata,
                                call[t].configuration, TRUE)
            /\ pc[t] \in {"lock_lookup", "lookup", "request", "await",
                          "lock_insert", "insert", "done"}
            /\ reqs[t] <= 1
            /\ net[t].kind = "req" =>
                  net[t] = Request("POST", TRUE, <<"collections">>,
                                   [name |-> call[t].name,
                                    metadata |-> call[t].metadata,
                                    get_or_create |-> TRUE,
                                    configuration |->
                                        WireConfiguration(call[t].configuration)])
            /\ hit0[t] # None =>
                  /\ reqs[t] = 0
                  /\ Returned(t) => result[t] = OkCollection(hit0[t][1])
            /\ (Returned(t) /\ result[t].kind = "Ok" /\ reqs[t] = 1) =>
                  /\ Answered(net[t])
                  /\ result[t] = OkCollection(attach_api(json_collection(net[t].colls[1])))
                  /\ call[t].name \in DOMAIN collection_cache

\* get_or_create_collection, called with a metadata map and a configuration,
\* returned the handle the server answered its request with.
C7_Witness ==
    \E t \in Tasks :
        /\ IsGoc(t) /\ Returned(t) /\ result[t].kind = "Ok" /\ reqs[t] = 1
        /\ call[t].metadata # None /\ call[t].configuration # None

\* C8 (Spec): no call issues more than one request; a call that fails
\* returns the error the translator, the transport, the server or the
\* decoder raised; and the cache changes only in the last step of a
\* create_collection call that returns a handle, so a call that fails leaves
\* the cache as it was.
C8_Frame ==
    collection_cache' # collection_cache =>
        \E t \in Tasks : /\ IsCreate(t) /\ pc[t] = "insert" /\ pc'[t] = "done"
                         /\ result'[t].kind = "Ok"
C8_State ==
    \A t \in Tasks :
        /\ reqs[t] <= 1
        /\ (Returned(t) /\ result[t].kind = "Err") =>
              /\ result[t] = Err(result[t].err)
              /\ net[t].kind = "none" =>
                    /\ result[t].err = "ConfigurationError"
                    /\ IsCreate(t) /\ call[t].configuration = Some("invalid")
                    /\ reqs[t] = 0
              /\ net[t].kind = "req" => result[t].err = "TransportError"
              /\ (net[t].kind = "resp" /\ net[t].status # "Ok") =>
                    result[t].err \in {net[t].status, "TransportError"}
              /\ Answered(net[t]) =>
                    result[t].err \in
                        IF call[t].method = "delete_collection"
                        THEN {"TransportError"}
                        ELSE {"DecodeError", "TransportError"}
C8_FailuresPropagate == [][C8_Frame]_vars /\ []C8_State

\* A create call failed to decode the answer of a server that had created
\* the collection: the call returned the error, the cache has no entry.
C8_Witness ==
    \E t \in Tasks :
        /\ IsCreate(t) /\ Returned(t) /\ result[t] = Err("DecodeError")
        /\ call[t].name = "a" /\ "a" \in DOMAIN server
        /\ "a" \notin DOMAIN collection_cache

\* C9 (Spec): every delete_collection call issues one request and returns
\* the server's answer to it (or the transport's error); the server answers
\* Ok, and drops the collection, when it holds the (valid) name and answers
\* not-found when it does not; and a delete that follows a successful delete of the
\* same name is answered not-found and never returns Ok, also while the
\* name is in the cache.
C9_Frame ==
    \A t \in Tasks :
        (/\ call[t].method = "delete_collection" /\ call[t].name \in ValidNames
         /\ net[t].kind = "req" /\ net'[t].kind = "resp") =>
            IF call[t].name \in DOMAIN server
            THEN /\ Answered(net'[t])
                 /\ server' = Remove(server, call[t].name)
            ELSE /\ net'[t].status = "NotFoundError"
                 /\ server' = server
C9_State ==
    \A t \in Tasks :
        call[t].method = "delete_collection" =>
            /\ pc[t] \in {"await", "done"} => reqs[t] = 1
            /\ Returned(t) =>
                  result[t] \in
                      IF Answered(net[t]) THEN {OkUnit, Err("TransportError")}
                      ELSE IF net[t].kind = "resp"
                      THEN {Err(net[t].status), Err("TransportError")}
                      ELSE {Err("TransportError")}
            /\ (Repeats(t) /\ prev[t].result = OkUnit) =>
                  /\ net[t].kind = "resp" => net[t].status = "NotFoundError"
                  /\ Returned(t) => /\ result[t].kind = "Err"
                                    /\ result[t].err \in {"NotFoundError",
                                                          "TransportError"}
C9_DeleteTwice == [][C9_Frame]_vars /\ []C9_State

\* The second delete of a name returned not-found while the session cache
\* still held the name.
C9_Witness ==
    /\ Repeats(1) /\ call[1].method = "delete_collection" /\ prev[1].result = OkUnit
    /\ Returned(1) /\ result[1] = Err("NotFoundError")
    /\ call[1].name \in DOMAIN collection_cache

\* C10 as stated (SpecNew): the endpoint of a constructed client is the
\* explicit url if given; otherwise CHROMA_HOST if set; otherwise CHROMA_URL
\* if set; otherwise the default.
C10_AsStated ==
    api # None =>
        api[1].endpoint =
            IF opts.url # None THEN opts.url[1]
            ELSE IF env["CHROMA_HOST"].set THEN env["CHROMA_HOST"].val
            ELSE IF env["CHROMA_URL"].set THEN env["CHROMA_URL"].val
            ELSE DEFAULT_ENDPOINT

\* C10 (SpecNew), amended: the endpoint of a constructed client is the
\* explicit url if given; otherwise CHROMA_HOST if set to valid Unicode;
\* otherwise CHROMA_URL if set to valid Unicode; otherwise the default.
Usable(k) == env[k].set /\ env[k].unicode
C10_EndpointPriority ==
    api # None =>
        api[1].endpoint =
            IF opts.url # None THEN opts.url[1]
            ELSE IF Usable("CHROMA_HOST") THEN env["CHROMA_HOST"].val
            ELSE IF Usable("CHROMA_URL") THEN env["CHROMA_URL"].val
            ELSE DEFAULT_ENDPOINT

\* A client constructed without an explicit url while both variables are set
\* to valid Unicode: CHROMA_HOST decides.
C10_Witness ==
    /\ api # None /\ opts.url = None
    /\ Usable("CHROMA_HOST") /\ Usable("CHROMA_URL")
    /\ api[1].endpoint = env["CHROMA_HOST"].val
    /\ api[1].endpoint # env["CHROMA_URL"].val


\* Task t is about to take the cache lock.
AtLock(t) == pc[t] \in {"lock_lookup", "lock_insert"}

\* C11 (SpecFault): once the Mutex is poisoned it stays poisoned and the
\* cache is never changed again; no task holds the guard; a create call
\* that reaches a lock acquisition then ends in a panic, returning neither a
\* handle nor an error, and that step leaves the cache as it is.
C11_Frame ==
    lock = Poisoned =>
        /\ lock' = Poisoned
        /\ collection_cache' = collection_cache
        /\ \A t \in Tasks :
              (AtLock(t) /\ pc'[t] # pc[t]) =>
                  pc'[t] = "panicked" /\ result'[t] = NoResult
C11_State ==
    /\ lock = Poisoned => \A t \in Tasks : pc[t] \notin {"lookup", "insert"}
    /\ \A t \in Tasks : pc[t] = "panicked" => result[t] = NoResult
C11_PoisonIsFatal == [][C11_Frame]_vars /\ []C11_State

\* Two calls have panicked with the server's handle decoded: one poisoned the
\* Mutex at its insert, the other reached the lock for its insert afterwards.
\* The cache has no entry for the name.
C11_Witness ==
    /\ lock = Poisoned
    /\ \E t, u \in Tasks :
          /\ t # u /\ pc[t] = "panicked" /\ pc[u] = "panicked"
          /\ collection[t] # None /\ collection[u] # None
          /\ call[u].name \notin DOMAIN collection_cache


\* Task t's create call returned a handle it got from the server.
ReturnedFromServer(t) ==
    IsCreate(t) /\ Returned(t) /\ result[t].kind = "Ok" /\ reqs[t] = 1

\* C12 as stated (Spec): whenever a create call returns a handle it obtained
\* from the server, the cache holds an entry for the name and the entry has
\* the identifier of the handle returned.
C12_ReturnedMatchesCache ==
    \A t \in Tasks :
        ReturnedFromServer(t) =>
            /\ call[t].name \in DOMAIN collection_cache
            /\ collection_cache[call[t].name].id = result[t].colls[1].id


\* C13 (Spec): an entry of the cache is never replaced or removed, by any
\* step of any operation; the cache changes only when a create call at its
\* insert step, holding the lock, adds its own handle under a name that has
\* no entry.
C13_Frame ==
    /\ \A n \in DOMAIN collection_cache :
          n \in DOMAIN collection_cache' /\ collection_cache'[n] = collection_cache[n]
    /\ collection_cache' # collection_cache =>
          \E t \in Tasks :
              /\ IsCreate(t) /\ pc[t] = "insert" /\ lock = t
              /\ frame[t].name \notin DOMAIN collection_cache
              /\ collection_cache' =
                    (frame[t].name :> collection[t][1]) @@ collection_cache
C13_FirstWriterWins == [][C13_Frame]_vars

\* A create call returned the server's handle for a name whose cache entry,
\* inserted earlier, has another identifier: the entry was kept.
C13_Witness ==
    \E t \in Tasks :
        /\ ReturnedFromServer(t)
        /\ call[t].name \in DOMAIN collection_cache
        /\ collection_cache[call[t].name].id # result[t].colls[1].id


\* C14 (Spec): the lock is held only by a task at its lookup or its insert,
\* never by a task that is about to send, awaits a response, waits for the
\* lock or has returned; a call leaves its lookup or changes the cache only
\* while it holds the lock.
C14_Frame ==
    /\ \A t \in Tasks : (pc[t] = "lookup" /\ pc'[t] # pc[t]) => lock = t
    /\ collection_cache' # collection_cache =>
          \E t \in Tasks : lock = t /\ pc[t] = "insert" /\ pc'[t] # pc[t]
C14_State ==
    /\ lock \in Tasks => pc[lock] \in {"lookup", "insert"}
    /\ \A t \in Tasks : pc[t] \in {"lookup", "insert"} => lock = t
    /\ \A t \in Tasks : pc[t] \in {"request", "await"} => lock # t
C14_NoLockAcrossAwait == [][C14_Frame]_vars /\ []C14_State

\* Two create requests for the same name are in flight at once, both after a
\* cache miss, and the lock is free.
C14_Witness ==
    /\ lock = 0
    /\ \E t, u \in Tasks :
          /\ t # u /\ IsCreate(t) /\ IsCreate(u) /\ call[t].name = call[u].name
          /\ frame[t].get_or_create /\ frame[u].get_or_create
          /\ pc[t] = "await" /\ pc[u] = "await"
          /\ net[t].kind = "req" /\ net[u].kind = "req"


\* C15 (Spec): the cache is a map from names: each name has at most one
\* entry, the entry stored under a name is a handle of that name, and every
\* entry carries the session's transport reference, never the one a handle
\* is deserialized with.
C15_CacheEntriesAttached ==
    /\ DOMAIN collection_cache \subseteq Names
    /\ \A n \in DOMAIN collection_cache :
          /\ collection_cache[n].name = n
          /\ collection_cache[n].api = ApiRef
          /\ collection_cache[n].api # Unattached

\* The cache holds an entry for each of two names.
C15_Witness ==
    /\ Cardinality(DOMAIN collection_cache) = 2
    /\ \A n \in DOMAIN collection_cache : collection_cache[n].api = ApiRef

\* The handles of a result.
Handles(r) == Range(r.colls)
\* The cache entry under the name of task t's call.
hit_entry(t) == Entry(call[t].name)

\* C17 (Spec): every handle a create_collection, get_or_create_collection,
\* get_collection or list_collections call returns carries the session's
\* transport reference; the handle a create call holds after decoding carries
\* it from the step that decodes it, is not changed while the call runs, and
\* is the handle the call returns; apart from the reference, a handle
\* returned from the server is the decoded answer.
C17_Frame ==
    \A t \in Tasks :
        (collection[t] # None /\ pc'[t] \in {"lock_insert", "insert", "done"}) =>
            collection'[t] = collection[t]
C17_State ==
    \A t \in Tasks :
        /\ collection[t] # None => collection[t][1].api = ApiRef
        /\ (Returned(t) /\ result[t].kind = "Ok") =>
              /\ \A h \in Handles(result[t]) : h.api = ApiRef
              /\ ReturnedFromServer(t) =>
                    /\ result[t].colls = collection[t]
                    /\ Wire(result[t].colls[1].name, result[t].colls[1].id)
                          = net[t].colls[1]
              /\ (IsCreate(t) /\ reqs[t] = 0) => result[t].colls = hit_entry(t)
              /\ call[t].method \in {"get_collection", "list_collections"} =>
                    /\ Len(result[t].colls) = Len(net[t].colls)
                    /\ \A i \in DOMAIN net[t].colls :
                          Wire(result[t].colls[i].name, result[t].colls[i].id)
                             = net[t].colls[i]
C17_HandlesAttached == [][C17_Frame]_vars /\ []C17_State

\* list_collections returned two handles, both with the session's reference.
C17_Witness ==
    \E t \in Tasks :
        /\ call[t].method = "list_collections" /\ Returned(t)
        /\ result[t].kind = "Ok" /\ Len(result[t].colls) = 2
        /\ \A h \in Handles(result[t]) : h.api = ApiRef


\* Task t is the only task that has called the session so far.
Alone(t) == \A u \in Tasks \ {t} : pc[u] = "idle"

\* C16 (SpecFault): a create call abandoned while it awaits its response
\* goes no further: the step that abandons it changes neither the cache nor
\* the lock, it holds no lock and has no result, and the cache changes only
\* in the step that completes another call's insert.  When no other task
\* has called the session, the cache entry for the call's name is the one
\* it was when the call began, whether or not the server applied the request.
C16_Frame ==
    /\ \A t \in Tasks :
          /\ pc[t] = "cancelled" => pc'[t] = "cancelled"
          /\ (pc'[t] = "cancelled" /\ pc[t] # "cancelled") =>
                /\ pc[t] = "await"
                /\ collection_cache' = collection_cache
                /\ lock' = lock
    /\ collection_cache' # collection_cache =>
          \E t \in Tasks : pc[t] = "insert" /\ pc'[t] = "done"
C16_State ==
    \A t \in Tasks :
        pc[t] = "cancelled" =>
            /\ lock # t
            /\ result[t] = NoResult
            /\ collection[t] = None
            /\ Alone(t) => Entry(call[t].name) = hit0[t]
C16_AbandonedCallLeavesCache == [][C16_Frame]_vars /\ []C16_State

\* A call was abandoned after the server had created the collection: the
\* cache has no entry for the name and the lock is free.
C16_Witness ==
    \E t \in Tasks :
        /\ pc[t] = "cancelled" /\ Answered(net[t])
        /\ call[t].name \in DOMAIN server
        /\ call[t].name \notin DOMAIN collection_cache
        /\ lock = 0


\* Task t's create call carries a configuration the translator rejects.
BadConfiguration(t) == IsCreate(t) /\ call[t].configuration = Some("invalid")

\* C19 (Spec): a create call whose configuration fails translation never
\* sends a request, never decodes a handle and never reaches the insert.
\* With get_or_create = true and the name cached when the call begins, it
\* returns the cached handle; whatever it returns as Ok is the cache entry.
\* With get_or_create = false, or on a miss in a sequential behaviour, it
\* returns the configuration error; it returns no other error.
C19_State ==
    \A t \in Tasks :
        BadConfiguration(t) =>
            /\ pc[t] \notin {"await", "lock_insert", "insert"}
            /\ reqs[t] = 0 /\ net[t] = NoMsg /\ collection[t] = None
            /\ (frame[t].get_or_create /\ hit0[t] # None /\ Returned(t)) =>
                  result[t] = OkCollection(hit0[t][1])
            /\ (Returned(t) /\ result[t].kind = "Ok") =>
                  /\ frame[t].get_or_create
                  /\ result[t].colls = Entry(call[t].name)
            /\ (Returned(t) /\ result[t].kind = "Err") =>
                  result[t] = Err("ConfigurationError")
            /\ (/\ Returned(t)
                /\ \/ ~frame[t].get_or_create
                   \/ sequential /\ hit0[t] = None) =>
                  result[t] = Err("ConfigurationError")
C19_Frame ==
    \A t \in Tasks :
        (BadConfiguration(t) /\ pc'[t] # pc[t] /\ pc[t] \notin {"idle", "done"}) =>
            collection_cache' = collection_cache
C19_CacheHitIgnoresArguments == [][C19_Frame]_vars /\ []C19_State

\* A get_or_create call with a configuration that fails translation returned
\* the cached handle.
C19_Witness ==
    \E t \in Tasks :
        /\ BadConfiguration(t) /\ frame[t].get_or_create /\ Returned(t)
        /\ hit0[t] # None /\ result[t] = OkCollection(hit0[t][1])

\* A create call with get_or_create = false and a configuration that fails
\* translation returned the configuration error while the name was cached.
C19_WitnessMiss ==
    \E t \in Tasks :
        /\ BadConfiguration(t) /\ ~frame[t].get_or_create /\ Returned(t)
        /\ result[t] = Err("ConfigurationError")
        /\ call[t].name \in DOMAIN collection_cache


\* Task t is running a call.
Calling(t) == pc[t] \notin {"idle", "done"}

\* C18 (SpecLive): under any interleaving of concurrent calls, with no panic
\* and a transport that ends every request, every call that has begun
\* eventually returns a result or an error; in particular a task waiting for
\* the cache lock eventually gets it.
C18_EveryCallReturns ==
    \A t \in 1 .. MaxTasks :
        /\ Calling(t) ~> (Returned(t) /\ result[t].kind \in {"Ok", "Err"})
        /\ (AtLock(t) /\ lock # 0) ~> (lock = t)

\* A create call waits for the lock at its insert while another call holds it.
C18_Witness ==
    \E t, u \in Tasks :
        /\ t # u /\ pc[t] = "lock_insert" /\ lock = u /\ pc[u] \in {"lookup", "insert"}

====
